---------------------------- MODULE Spec2Model ----------------------------
(***************************************************************************)
(* Model of src/src/components/AutonomousDrivingSimulation.jsx: the road   *)
(* generator, the sensor model, the two controllers, the per-frame tick    *)
(* and the React wiring (state, handlers, the scene effect and the         *)
(* animation-frame loop) that drives them.                                 *)
(*                                                                         *)
(* Numbers are fixed point, truncated toward zero:                         *)
(*   lengths and positions   in tenths of a road unit   (500 -> 5000)      *)
(*   speeds                  in thousandths             (0.3 -> 300)       *)
(*   angles and curvatures   in milliradians            (0.015 -> 15)      *)
(*   Sin and Cos             scaled by 1000                                *)
(*   elapsed time (delta)    in seconds                                    *)
(***************************************************************************)
EXTENDS Integers, Naturals, Sequences, FiniteSets, TLC

VARIABLES
  simulation,           \* simulationRef.current
  isSimulationRunning,  \* React state, the value the next render will see
  laneKeepingActive,    \* React state
  adaptiveCruiseActive, \* React state
  speed,                \* React state shown as "Speed"
  distance,             \* React state shown as "Distance"
  rendered,             \* the state values captured by the closures of the last committed render
  frames,               \* animation-frame callbacks requested and not yet run or cancelled
  requestRef,           \* requestRef.current: id of the last requested frame
  staleFrames,          \* frames fired since a state change that is not yet rendered
  lastEvent,            \* history: the step that produced this state
  commands,             \* history: number of user commands so far
  readingsEpoch,        \* history: which road the sensor readings were measured against
  acInput               \* history: the reading the current target speed was derived from

vars == <<simulation, isSimulationRunning, laneKeepingActive, adaptiveCruiseActive,
          speed, distance, rendered, frames, requestRef, staleFrames,
          lastEvent, commands, readingsEpoch, acInput>>

---------------------------------------------------------------------------
(* Bounds of the model *)

MinDelta == 15         \* the shorter of the two elapsed times a frame may see, seconds
MaxDelta == 30         \* the longer one
MaxCurvedIndex == 3    \* segments after this index draw curvature 0
MaxObstacleIndex == 4  \* segments after this index draw no obstacle
MaxCommands == 2       \* user commands (start, stop, toggles) in one behaviour
MaxStaleFrames == 0    \* frames that may fire between a state change and its render
MaxClearance == 150    \* largest finite forward clearance given to the cruise controller
MaxAlong == 250        \* farthest point along a centerline given to lane keeping

(* Program constants *)

roadLength == 5000     \* 500
roadWidth == 120       \* 12
segments == 20
baseSpeed == 300       \* 0.3
Infinity == 1000000    \* larger than any distance in the model

Deltas == {MinDelta, MaxDelta}
CurvatureDraws == {-15, 0, 10}   \* samples of Math.random() * 0.03 - 0.015
segmentLength == roadLength \div segments

---------------------------------------------------------------------------
(* Fixed-point arithmetic *)

Abs(a) == IF a < 0 THEN -a ELSE a
Min(a, b) == IF a <= b THEN a ELSE b
Max(a, b) == IF a >= b THEN a ELSE b

\* a / b rounded toward zero, b # 0
Trunc(a, b) ==
  LET q == Abs(a) \div Abs(b)
  IN IF (a < 0) = (b < 0) THEN q ELSE -q

\* sine of f milliradians, -1571 <= f <= 1571, scaled by 1000
SinPoly(f) ==
  LET f2 == Trunc(f * f, 1000)
      f3 == Trunc(f * f2, 1000)
      f5 == Trunc(f3 * f2, 1000)
      f7 == Trunc(f5 * f2, 1000)
  IN f - Trunc(f3, 6) + Trunc(f5, 120) - Trunc(f7, 5040)

\* Math.sin of a milliradians, scaled by 1000
Sin(a) ==
  LET r == ((a + 3142) % 6284) - 3142
      f == IF r > 1571 THEN 3142 - r ELSE IF r < -1571 THEN -3142 - r ELSE r
  IN SinPoly(f)

\* Math.cos of a milliradians, scaled by 1000
Cos(a) == Sin(a + 1571)

---------------------------------------------------------------------------
(* generateRoad *)

\* the random draws of one call: a curvature per segment, and per segment
\* 0 (Math.random() >= 0.2), 1 or -1 (the sign of the lane offset)
CurvatureStreams ==
  { [i \in 0..(segments - 1) |-> IF i \in DOMAIN f THEN f[i] ELSE 0] :
      f \in [3..MaxCurvedIndex -> CurvatureDraws] }

ObstacleStreams ==
  { [i \in 0..(segments - 1) |-> IF i \in DOMAIN f THEN f[i] ELSE 0] :
      f \in [4..MaxObstacleIndex -> {-1, 0, 1}] }

\* the entry pushed for segment i
CurveEntry(x, z, angle, curvature) ==
  [position |-> [x |-> x, z |-> z], angle |-> angle, curvature |-> curvature]

\* NextAngle without  currentAngle += curvature
NextAngle_NotAccumulated(angle, curvature) == angle

\* heading of the segment after one with heading angle and curvature curvature
NextAngle(angle, curvature) == angle + curvature

\* the first loop of generateRoad, from segment i on
RECURSIVE BuildCurves(_, _, _, _, _)
BuildCurves(i, currentX, currentZ, currentAngle, cv) ==
  IF i >= segments THEN << >>
  ELSE LET curvature == IF i < 3 THEN 0 ELSE cv[i]
           nextAngle == NextAngle(currentAngle, curvature)
       IN << CurveEntry(currentX, currentZ, currentAngle, curvature) >> \o
          BuildCurves(i + 1,
                      currentX + Trunc(Sin(nextAngle) * segmentLength, 1000),
                      currentZ + Trunc(Cos(nextAngle) * segmentLength, 1000),
                      nextAngle, cv)

\* where the obstacle of a segment is put
ObstacleAt(curve, sign) ==
  LET laneOffset == sign * (roadWidth \div 4)
  IN [x |-> curve.position.x + Trunc(Sin(curve.angle) * laneOffset, 1000),
      z |-> curve.position.z + Trunc(Cos(curve.angle) * laneOffset, 1000),
      angle |-> curve.angle]

\* the second loop of generateRoad, from segment i on (curves is 1-indexed)
RECURSIVE PlaceObstacles(_, _, _)
PlaceObstacles(i, curves, ob) ==
  IF i >= segments THEN << >>
  ELSE (IF ob[i] # 0 /\ i > 3 THEN << ObstacleAt(curves[i + 1], ob[i]) >> ELSE << >>) \o
       PlaceObstacles(i + 1, curves, ob)

\* the segment list and the obstacle list one call builds from its draws
RoadOf(cv, ob) ==
  LET curves == BuildCurves(0, 0, 0, 0, cv)
  IN [roadCurves |-> curves, obstacles |-> PlaceObstacles(0, curves, ob)]

\* every road a call can build
RandomRoads == { RoadOf(cv, ob) : cv \in CurvatureStreams, ob \in ObstacleStreams }

\* generateRoad, road being the lists its two loops built
generateRoad(sim, road) ==
  [sim EXCEPT !.roadCurves = road.roadCurves,
              !.obstacles = road.obstacles,
              !.carPosition = [x |-> 0, z |-> 0],
              !.carRotation = 0,
              !.distance = 0]


---------------------------------------------------------------------------
(* updateSensors: THREE.Raycaster against the obstacle meshes.  The ray of  *)
(* each sensor runs at the height where it meets only the 2 x 4 body box    *)
(* of an obstacle; the materials are front-sided, so a box is hit where the *)
(* ray enters it and never from inside.                                     *)

NoHit == [lo |-> 1, hi |-> 0]

\* the ray parameters between which  -half <= l + t*d/1000 <= half
Slab(l, d, half) ==
  IF d = 0
    THEN IF -half <= l /\ l <= half THEN [lo |-> -Infinity, hi |-> Infinity] ELSE NoHit
    ELSE LET t1 == Trunc((-half - l) * 1000, d)
             t2 == Trunc((half - l) * 1000, d)
         IN [lo |-> Min(t1, t2), hi |-> Max(t1, t2)]

\* distance at which the ray from (ox, oz) along (dx, dz)/1000 enters the
\* body of obstacle o, or Infinity
BoxDistance(ox, oz, dx, dz, o) ==
  LET rx == ox - o.x
      rz == oz - o.z
      lx == Trunc(rx * Cos(o.angle) - rz * Sin(o.angle), 1000)
      lz == Trunc(rx * Sin(o.angle) + rz * Cos(o.angle), 1000)
      ldx == Trunc(dx * Cos(o.angle) - dz * Sin(o.angle), 1000)
      ldz == Trunc(dx * Sin(o.angle) + dz * Cos(o.angle), 1000)
      sx == Slab(lx, ldx, 10)
      sz == Slab(lz, ldz, 20)
      enter == Max(sx.lo, sz.lo)
      exit == Min(sx.hi, sz.hi)
  IN IF sx.lo <= sx.hi /\ sz.lo <= sz.hi /\ enter <= exit /\ enter >= 0
       THEN enter ELSE Infinity

\* intersects.length > 0 ? intersects[0].distance : Infinity
RayDistance(ox, oz, dx, dz, obstacles) ==
  LET ds == { BoxDistance(ox, oz, dx, dz, obstacles[k]) : k \in DOMAIN obstacles }
  IN IF ds = {} THEN Infinity
     ELSE CHOOSE d \in ds : \A e \in ds : d <= e

updateSensors(sim) ==
  IF ~sim.car \/ ~sim.sensorsFront THEN sim
  ELSE LET px == sim.carPosition.x
           pz == sim.carPosition.z
           s == Sin(sim.carRotation)
           c == Cos(sim.carRotation)
       IN [sim EXCEPT !.sensorReadings =
            [front |-> RayDistance(px + Trunc(20 * s, 1000), pz + Trunc(20 * c, 1000),
                                   s, c, sim.obstacles),
             left  |-> RayDistance(px - Trunc(10 * c, 1000), pz + Trunc(10 * s, 1000),
                                   -c, s, sim.obstacles),
             right |-> RayDistance(px + Trunc(10 * c, 1000), pz - Trunc(10 * s, 1000),
                                   c, -s, sim.obstacles)]]

---------------------------------------------------------------------------
(* updateAdaptiveCruiseControl *)

\* SlowedSpeed without the Math.max(0.1, ...) floor
SlowedSpeed_NoFloor(frontDistance) == Trunc(baseSpeed * frontDistance * 10, 1000)

\* baseSpeed * Math.max(0.1, frontDistance / 10)
SlowedSpeed(frontDistance) == Trunc(baseSpeed * Max(100, frontDistance * 10), 1000)

ACTargetSpeed(frontDistance) ==
  IF frontDistance < 100 THEN SlowedSpeed(frontDistance) ELSE baseSpeed

updateAdaptiveCruiseControl(sim) ==
  [sim EXCEPT !.targetSpeed = ACTargetSpeed(sim.sensorReadings.front)]

---------------------------------------------------------------------------
(* updateLaneKeeping *)

\* Math.sqrt is increasing, so the scan compares the squared distances
SegmentDistance2(pos, segment) ==
  (pos.x - segment.position.x) * (pos.x - segment.position.x) +
  (pos.z - segment.position.z) * (pos.z - segment.position.z)

\* the scan from index i on (1-based), nearest and minDistance being its state
RECURSIVE ScanSegments(_, _, _, _, _)
ScanSegments(i, nearest, minDistance, pos, curves) ==
  IF i > Len(curves) THEN nearest
  ELSE LET d == SegmentDistance2(pos, curves[i])
       IN IF d < minDistance
            THEN ScanSegments(i + 1, i, d, pos, curves)
            ELSE ScanSegments(i + 1, nearest, minDistance, pos, curves)

\* nearestSegmentIndex + 1; minDistance starts at Infinity, here above any squared distance
NearestSegmentIndex(pos, curves) == ScanSegments(1, 1, 2000000000, pos, curves)

\* rotatedX = relativeX * cos(-roadAngle) - relativeZ * sin(-roadAngle)
LateralOffset(pos, segment) ==
  LET relativeX == pos.x - segment.position.x
      relativeZ == pos.z - segment.position.z
  IN Trunc(relativeX * Cos(-segment.angle) - relativeZ * Sin(-segment.angle), 1000)

\* (steeringCorrection + predictiveSteering) * carSpeed, milliradians
SteeringAdjustment(pos, segment, carSpeed) ==
  LET steeringCorrection == -LateralOffset(pos, segment) * 50
      predictiveSteering == segment.curvature * 10
  IN Trunc((steeringCorrection + predictiveSteering) * carSpeed, 1000)

updateLaneKeeping(sim) ==
  IF ~sim.car \/ Len(sim.roadCurves) = 0 THEN sim
  ELSE LET currentSegment == sim.roadCurves[NearestSegmentIndex(sim.carPosition, sim.roadCurves)]
       IN [sim EXCEPT !.carRotation =
            @ + SteeringAdjustment(sim.carPosition, currentSegment, sim.carSpeed)]

---------------------------------------------------------------------------
(* updateSimulation *)

\* EndOfRoad testing how far down the z axis the car is instead of how far it drove
EndOfRoad_ByPosition(sim) == sim.carPosition.z > roadLength

\* simulation.distance > simulation.roadLength
EndOfRoad(sim) == sim.distance > roadLength

\* Tick with lane keeping evaluated before the car is moved
Tick_SteerBeforeMove(sim, lane, cruise, delta) ==
  LET s1 == IF cruise THEN updateAdaptiveCruiseControl(sim) ELSE sim
      carSpeed == s1.carSpeed + Trunc(s1.targetSpeed - s1.carSpeed, 10)
      distanceStep == Trunc(carSpeed * delta, 5)
      s2 == [s1 EXCEPT !.carSpeed = carSpeed]
      s3 == IF lane THEN updateLaneKeeping(s2) ELSE s2
      s4 == [s3 EXCEPT !.carPosition =
                          [x |-> @.x + Trunc(Sin(s3.carRotation) * distanceStep, 1000),
                           z |-> @.z + Trunc(Cos(s3.carRotation) * distanceStep, 1000)],
                       !.distance = @ + distanceStep]
  IN updateSensors(s4)

\* Tick without  simulation.distance += distanceStep
Tick_DistanceNotAccumulated(sim, lane, cruise, delta) ==
  LET s1 == IF cruise THEN updateAdaptiveCruiseControl(sim) ELSE sim
      carSpeed == s1.carSpeed + Trunc(s1.targetSpeed - s1.carSpeed, 10)
      distanceStep == Trunc(carSpeed * delta, 5)
      s2 == [s1 EXCEPT !.carSpeed = carSpeed,
                       !.carPosition = [x |-> @.x + Trunc(Sin(s1.carRotation) * distanceStep, 1000),
                                        z |-> @.z + Trunc(Cos(s1.carRotation) * distanceStep, 1000)]]
      s3 == IF lane THEN updateLaneKeeping(s2) ELSE s2
  IN updateSensors(s3)

\* the tick up to and including updateSensors
Tick(sim, lane, cruise, delta) ==
  LET s1 == IF cruise THEN updateAdaptiveCruiseControl(sim) ELSE sim
      carSpeed == s1.carSpeed + Trunc(s1.targetSpeed - s1.carSpeed, 10)
      distanceStep == Trunc(carSpeed * delta, 5)
      s2 == [s1 EXCEPT !.carSpeed = carSpeed,
                       !.carPosition =
                          [x |-> @.x + Trunc(Sin(s1.carRotation) * distanceStep, 1000),
                           z |-> @.z + Trunc(Cos(s1.carRotation) * distanceStep, 1000)],
                       !.distance = @ + distanceStep]
      s3 == IF lane THEN updateLaneKeeping(s2) ELSE s2
  IN updateSensors(s3)

\* whether updateSimulation gets past its first line
TickRuns(sim) == sim.car /\ sim.initialized

---------------------------------------------------------------------------
(* The component: React state, the closures of a render, the frame loop *)

\* the state values a render hands to the closures it creates
CurrentRender ==
  [running |-> isSimulationRunning, lane |-> laneKeepingActive, cruise |-> adaptiveCruiseActive]

\* Pending frames are kept in the order they were requested and a frame is
\* identified by its place in that order; requestRef is 0 when the frame it
\* names is no longer pending.

RemoveAt(seq, k) == [i \in 1..(Len(seq) - 1) |-> IF i < k THEN seq[i] ELSE seq[i + 1]]

\* requestAnimationFrame(animate), animate being the callback of the render
\* whose state values are closure
RequestFrame(pending, closure) == Append(pending, closure)

\* a cleanup that does not call cancelAnimationFrame
CancelFrame_Forgotten(pending, id) == pending

\* cancelAnimationFrame(id)
CancelFrame(pending, id) == IF id \in DOMAIN pending THEN RemoveAt(pending, id) ELSE pending

\* what generateRoad does to the history of the sensor readings
AfterRegeneration(epoch) == IF epoch = "current" THEN "previous" ELSE epoch

Init ==
  /\ simulation = [car |-> FALSE, sensorsFront |-> FALSE, initialized |-> FALSE,
                   roadCurves |-> << >>, obstacles |-> << >>,
                   carSpeed |-> 300, targetSpeed |-> 300,
                   carPosition |-> [x |-> 0, z |-> 0], carRotation |-> 0,
                   sensorReadings |-> [front |-> Infinity, left |-> Infinity, right |-> Infinity],
                   distance |-> 0]
  /\ isSimulationRunning = FALSE
  /\ laneKeepingActive = TRUE
  /\ adaptiveCruiseActive = TRUE
  /\ speed = 0
  /\ distance = 0
  /\ rendered = [running |-> FALSE, lane |-> TRUE, cruise |-> TRUE]
  /\ frames = << >>
  /\ requestRef = 0
  /\ staleFrames = 0
  /\ lastEvent = "init"
  /\ commands = 0
  /\ readingsEpoch = "init"
  /\ acInput = [front |-> Infinity, epoch |-> "init"]

\* the body of the scene effect: setupCar, generateRoad, initialized, the first frame
EffectBody(pending, closure) ==
  /\ \E road \in RandomRoads :
       simulation' = [generateRoad([simulation EXCEPT !.car = TRUE, !.sensorsFront = TRUE], road)
                        EXCEPT !.initialized = TRUE]
  /\ distance' = 0
  /\ speed' = 0
  /\ readingsEpoch' = AfterRegeneration(readingsEpoch)
  /\ frames' = RequestFrame(pending, closure)
  /\ requestRef' = Len(frames')

\* the effect runs for the first time after the first render
Mount ==
  /\ ~simulation.initialized
  /\ EffectBody(frames, rendered)
  /\ lastEvent' = "mount"
  /\ UNCHANGED <<isSimulationRunning, laneKeepingActive, adaptiveCruiseActive,
                 rendered, staleFrames, commands, acInput>>

\* a render with changed state makes a new animate, so the effect is cleaned
\* up (the pending frame is cancelled) and run again
Commit ==
  /\ simulation.initialized
  /\ rendered # CurrentRender
  /\ rendered' = CurrentRender
  /\ EffectBody(CancelFrame(frames, requestRef), CurrentRender)
  /\ staleFrames' = 0
  /\ lastEvent' = "commit"
  /\ UNCHANGED <<isSimulationRunning, laneKeepingActive, adaptiveCruiseActive,
                 commands, acInput>>

\* animate without its  if (isSimulationRunning)
AnimateUpdates_Always(closure) == TRUE

\* animate's  if (isSimulationRunning) updateSimulation()
AnimateUpdates(closure) == closure.running

\* a pending frame fires and animate runs with the state values it captured
animate ==
  \E k \in DOMAIN frames :
    /\ rendered = CurrentRender \/ staleFrames < MaxStaleFrames
    /\ staleFrames' = IF rendered = CurrentRender THEN 0 ELSE staleFrames + 1
    /\ IF AnimateUpdates(frames[k]) /\ TickRuns(simulation)
         THEN \E delta \in Deltas :
                /\ simulation' = Tick(simulation, frames[k].lane, frames[k].cruise, delta)
                /\ distance' = simulation'.distance \div 10
                /\ speed' = simulation'.carSpeed \div 10
                /\ isSimulationRunning' = IF EndOfRoad(simulation') THEN FALSE ELSE isSimulationRunning
                /\ readingsEpoch' = "current"
                /\ acInput' = IF frames[k].cruise
                                THEN [front |-> simulation.sensorReadings.front, epoch |-> readingsEpoch]
                                ELSE acInput
                /\ lastEvent' = "tick"
         ELSE /\ lastEvent' = "frame"
              /\ UNCHANGED <<simulation, distance, speed, isSimulationRunning, readingsEpoch, acInput>>
    /\ frames' = RequestFrame(RemoveAt(frames, k), frames[k])
    /\ requestRef' = Len(frames')
    /\ UNCHANGED <<laneKeepingActive, adaptiveCruiseActive, rendered, commands>>

\* a click reaches the handlers of the last committed render
UserCommand == simulation.initialized /\ commands < MaxCommands

\* handleStartSimulation without its  if (!isSimulationRunning)
handleStartSimulation_Unguarded ==
  /\ UserCommand
  /\ commands' = commands + 1
  /\ lastEvent' = "start"
  /\ \E road \in RandomRoads : simulation' = generateRoad(simulation, road)
  /\ distance' = 0
  /\ speed' = 0
  /\ readingsEpoch' = AfterRegeneration(readingsEpoch)
  /\ isSimulationRunning' = TRUE
  /\ UNCHANGED <<laneKeepingActive, adaptiveCruiseActive, rendered, frames, requestRef, staleFrames, acInput>>

handleStartSimulation ==
  /\ UserCommand
  /\ commands' = commands + 1
  /\ lastEvent' = "start"
  /\ IF ~rendered.running
       THEN /\ \E road \in RandomRoads : simulation' = generateRoad(simulation, road)
            /\ distance' = 0
            /\ speed' = 0
            /\ readingsEpoch' = AfterRegeneration(readingsEpoch)
            /\ isSimulationRunning' = TRUE
       ELSE UNCHANGED <<simulation, distance, speed, readingsEpoch, isSimulationRunning>>
  /\ UNCHANGED <<laneKeepingActive, adaptiveCruiseActive, rendered, frames, requestRef, staleFrames, acInput>>

handleStopSimulation ==
  /\ UserCommand
  /\ commands' = commands + 1
  /\ lastEvent' = "stop"
  /\ isSimulationRunning' = IF rendered.running THEN FALSE ELSE isSimulationRunning
  /\ UNCHANGED <<simulation, laneKeepingActive, adaptiveCruiseActive, speed, distance,
                 rendered, frames, requestRef, staleFrames, readingsEpoch, acInput>>

\* onChange of the lane-keeping checkbox
toggleLaneKeeping ==
  /\ UserCommand
  /\ commands' = commands + 1
  /\ lastEvent' = "toggleLane"
  /\ laneKeepingActive' = ~rendered.lane
  /\ UNCHANGED <<simulation, isSimulationRunning, adaptiveCruiseActive, speed, distance,
                 rendered, frames, requestRef, staleFrames, readingsEpoch, acInput>>

\* onChange of the cruise-control checkbox
toggleAdaptiveCruise ==
  /\ UserCommand
  /\ commands' = commands + 1
  /\ lastEvent' = "toggleCruise"
  /\ adaptiveCruiseActive' = ~rendered.cruise
  /\ UNCHANGED <<simulation, isSimulationRunning, laneKeepingActive, speed, distance,
                 rendered, frames, requestRef, staleFrames, readingsEpoch, acInput>>

Next ==
  \/ Mount
  \/ Commit
  \/ animate
  \/ handleStartSimulation
  \/ handleStopSimulation
  \/ toggleLaneKeeping
  \/ toggleAdaptiveCruise

Spec == Init /\ [][Next]_vars

---------------------------------------------------------------------------
(* updateLaneKeeping on its own: the car is put on the centerline of a      *)
(* segment of a generated road, heading 0, and lane keeping runs once.      *)

\* the point t along the centerline of segment: its position plus t times
\* its forward direction (sin angle, cos angle)
CenterlinePoint(segment, t) ==
  [x |-> segment.position.x + Trunc(t * Sin(segment.angle), 1000),
   z |-> segment.position.z + Trunc(t * Cos(segment.angle), 1000)]

InitLaneKeeping ==
  /\ \E road \in RandomRoads, i \in 1..segments, t \in 0..MaxAlong, v \in {30, baseSpeed} :
       simulation = [car |-> TRUE, sensorsFront |-> TRUE, initialized |-> TRUE,
                     roadCurves |-> road.roadCurves, obstacles |-> road.obstacles,
                     carSpeed |-> v, targetSpeed |-> v,
                     carPosition |-> CenterlinePoint(road.roadCurves[i], t), carRotation |-> 0,
                     sensorReadings |-> [front |-> Infinity, left |-> Infinity, right |-> Infinity],
                     distance |-> 0]
  /\ isSimulationRunning = TRUE
  /\ laneKeepingActive = TRUE
  /\ adaptiveCruiseActive = TRUE
  /\ speed = 0
  /\ distance = 0
  /\ rendered = [running |-> TRUE, lane |-> TRUE, cruise |-> TRUE]
  /\ frames = << >>
  /\ requestRef = 0
  /\ staleFrames = 0
  /\ lastEvent = "placed"
  /\ commands = 0
  /\ readingsEpoch = "init"
  /\ acInput = [front |-> Infinity, epoch |-> "init"]

LaneKeepingStep ==
  /\ lastEvent = "placed"
  /\ simulation' = updateLaneKeeping(simulation)
  /\ lastEvent' = "laneKeeping"
  /\ UNCHANGED <<isSimulationRunning, laneKeepingActive, adaptiveCruiseActive, speed, distance,
                 rendered, frames, requestRef, staleFrames, commands, readingsEpoch, acInput>>

SpecLaneKeeping == InitLaneKeeping /\ [][LaneKeepingStep]_vars

---------------------------------------------------------------------------
(* Properties *)

Origin == [x |-> 0, z |-> 0]

\* a step that is the start command
StartStep == lastEvent' = "start" /\ commands' = commands + 1

\* a step in which a frame ran updateSimulation to its end
TickStep == lastEvent' = "tick"

\* C1 as claimed: the start command always resets: right after it, whatever
\* the running flag was, accumulated distance and shown distance and speed are 0.
C1_StartAlwaysResets ==
  lastEvent = "start" => (simulation.distance = 0 /\ distance = 0 /\ speed = 0)

\* C1 amended: a start command issued while the simulation is Running is
\* ignored, it changes nothing of the simulation or the React state; issued
\* while not Running it installs a generated road, puts the car at the
\* origin, sets accumulated distance and the shown distance and speed to 0
\* and sets the running flag.
C1_StartIgnoredWhileRunning ==
  [][StartStep =>
       IF rendered.running
         THEN UNCHANGED <<simulation, isSimulationRunning, speed, distance, frames, rendered>>
         ELSE /\ \E road \in RandomRoads :
                   /\ simulation'.roadCurves = road.roadCurves
                   /\ simulation'.obstacles = road.obstacles
              /\ simulation'.carPosition = Origin
              /\ simulation'.distance = 0
              /\ distance' = 0
              /\ speed' = 0
              /\ isSimulationRunning']_vars

\* a start command arrived in the middle of a run
C1_Witness ==
  lastEvent = "start" /\ rendered.running /\ isSimulationRunning /\ simulation.distance > 0

\* C2: a tick that leaves accumulated distance at or below roadLength does
\* not change the running flag, a tick that leaves it above roadLength
\* clears the flag, and the flag goes from set to cleared only by the stop
\* command or in the tick that takes distance from at most roadLength to
\* above it.
C2_StopsExactlyAtEndOfRoad ==
  [][/\ (TickStep /\ simulation'.distance <= roadLength)
          => isSimulationRunning' = isSimulationRunning
     /\ (TickStep /\ simulation'.distance > roadLength) => ~isSimulationRunning'
     /\ (isSimulationRunning /\ ~isSimulationRunning')
          => \/ lastEvent' = "stop"
             \/ /\ TickStep
                /\ simulation.distance <= roadLength
                /\ simulation'.distance > roadLength]_vars

\* a run with the start command only has just been ended by its last tick
C2_Witness ==
  /\ lastEvent = "tick"
  /\ commands = 1
  /\ rendered.running
  /\ ~isSimulationRunning
  /\ simulation.distance > roadLength

\* C3 as claimed: the segment list and the obstacle list are those of one
\* generated road, and the front clearance the cruise controller last used
\* was never one measured against the obstacles of an earlier road.
C3_NoStaleSensorInput ==
  /\ simulation.initialized =>
       \E road \in RandomRoads :
         /\ simulation.roadCurves = road.roadCurves
         /\ simulation.obstacles = road.obstacles
  /\ acInput.epoch # "previous"

\* C4 as claimed: the running flag is set only by the start command, and
\* when the render that starts a run is committed, distance is 0, the car is
\* at the origin with heading 0 and carSpeed and targetSpeed are back at
\* their initial value 0.3.
C4_StartResetsEverything ==
  [][/\ (~isSimulationRunning /\ isSimulationRunning') => StartStep
     /\ (~rendered.running /\ rendered'.running)
          => /\ simulation'.distance = 0
             /\ simulation'.carPosition = Origin
             /\ simulation'.carRotation = 0
             /\ simulation'.carSpeed = 300
             /\ simulation'.targetSpeed = 300]_vars

\* C5 as claimed: from a state within a run (the committed render is
\* Running) no step changes the segment list or the obstacle list, lowers
\* the accumulated distance or puts a car that had left the origin back on it.
C5_RoadImmutableWithinRun ==
  [][rendered.running =>
       /\ simulation'.roadCurves = simulation.roadCurves
       /\ simulation'.obstacles = simulation.obstacles
       /\ simulation'.distance >= simulation.distance
       /\ (simulation.carPosition # Origin => simulation'.carPosition # Origin)]_vars

\* C6: a frame whose animate was made by a render that is not Running, or
\* that finds no car, no initialized flag or no road segment, changes
\* neither the simulation (pose, speeds, distance, sensor readings, road)
\* nor the running flag nor the shown speed and distance.
C6_FrameBeforeStartIsNoOp ==
  [][(/\ lastEvent' \in {"frame", "tick"}
      /\ \/ \A k \in DOMAIN frames : ~frames[k].running
         \/ ~simulation.car
         \/ ~simulation.initialized
         \/ Len(simulation.roadCurves) = 0)
       => UNCHANGED <<simulation, isSimulationRunning, speed, distance>>]_vars

\* a frame has fired after mounting and before any command
C6_Witness ==
  /\ lastEvent = "frame"
  /\ commands = 0
  /\ ~rendered.running
  /\ simulation.initialized
  /\ Len(frames) = 1

\* baseSpeed * max(0.1, c / 10) below 10 and baseSpeed from 10 on, c in tenths
RegulatedSpeed(c) == IF c < 100 THEN (baseSpeed * Max(10, c)) \div 100 ELSE baseSpeed

\* C7: for every clearance from 0 to MaxClearance and for Infinity the cruise
\* controller's target speed is baseSpeed * max(0.1, c/10) below 10 units
\* and baseSpeed otherwise (5 -> 0.15, 20 -> 0.3, 0 -> 0.03); the target
\* speed of every reachable state is that function of the last front
\* clearance the controller read, and lies in [0.1 * baseSpeed, baseSpeed].
C7_CruiseTargetSpeed ==
  /\ \A c \in (0..MaxClearance) \cup {Infinity} : ACTargetSpeed(c) = RegulatedSpeed(c)
  /\ ACTargetSpeed(50) = 150
  /\ ACTargetSpeed(200) = 300
  /\ ACTargetSpeed(0) = 30
  /\ simulation.targetSpeed = RegulatedSpeed(acInput.front)
  /\ simulation.targetSpeed >= baseSpeed \div 10
  /\ simulation.targetSpeed <= baseSpeed
  /\ simulation.targetSpeed # 0

\* the cruise controller has slowed the car for an obstacle less than 10 units ahead
C7_Witness ==
  /\ lastEvent = "tick"
  /\ acInput.front < 100
  /\ simulation.targetSpeed < baseSpeed
  /\ simulation.carSpeed < baseSpeed

\* the car is at a point of the centerline of its nearest segment, whose curvature is 0
OnCenterline ==
  LET segment == simulation.roadCurves[NearestSegmentIndex(simulation.carPosition, simulation.roadCurves)]
  IN /\ segment.curvature = 0
     /\ \E t \in 0..MaxAlong : simulation.carPosition = CenterlinePoint(segment, t)

\* C8 as claimed: with the car on the centerline of its nearest segment and
\* that segment's curvature 0, lane keeping leaves the heading (0 before)
\* unchanged, up to the steering that one tenth of a unit of lateral offset
\* gives, which is the rounding of the centerline point.
C8_NoSteeringOnCenterline ==
  (lastEvent = "laneKeeping" /\ OnCenterline)
    => Abs(simulation.carRotation) <= Trunc(50 * simulation.carSpeed, 1000)

\* the lateral unit vector of heading angle is (cos angle, -sin angle)
LateralPlace(segment, sign) ==
  [x |-> segment.position.x + Trunc(Cos(segment.angle) * sign * (roadWidth \div 4), 1000),
   z |-> segment.position.z - Trunc(Sin(segment.angle) * sign * (roadWidth \div 4), 1000),
   angle |-> segment.angle]

\* C9 as claimed: every obstacle is at the position of a segment displaced
\* by roadWidth/4 across the road, to the left or to the right, not at all
\* along the segment's heading, and has the heading of that segment.
C9_ObstacleOffsetIsLateral ==
  \A k \in DOMAIN simulation.obstacles :
    \E i \in DOMAIN simulation.roadCurves, sign \in {-1, 1} :
      simulation.obstacles[k] = LateralPlace(simulation.roadCurves[i], sign)

\* C10: in every generated road segment 0 is at the origin with heading 0,
\* the heading of segment i+1 is the heading of segment i plus the curvature
\* of segment i, and segment i+1 starts one segment length along its own
\* heading from where segment i starts.
C10_HeadingAccumulatesCurvature ==
  LET curves == simulation.roadCurves
  IN Len(curves) > 0 =>
       /\ Len(curves) = segments
       /\ curves[1].position = Origin
       /\ curves[1].angle = 0
       /\ \A i \in 1..(Len(curves) - 1) :
            /\ curves[i + 1].angle = curves[i].angle + curves[i].curvature
            /\ curves[i + 1].position.x =
                 curves[i].position.x + Trunc(Sin(curves[i + 1].angle) * segmentLength, 1000)
            /\ curves[i + 1].position.z =
                 curves[i].position.z + Trunc(Cos(curves[i + 1].angle) * segmentLength, 1000)

\* a road with a curved segment has been generated
C10_Witness ==
  /\ simulation.initialized
  /\ Len(simulation.roadCurves) = segments
  /\ \E i \in 1..(segments - 1) :
       /\ simulation.roadCurves[i].curvature # 0
       /\ simulation.roadCurves[i + 1].angle # simulation.roadCurves[i].angle

\* ENABLED <<animate>>_vars as a state predicate: a frame is pending and may
\* fire, and its callback changes the state (a tick adds to the distance; a
\* frame that does not tick changes lastEvent or staleFrames).
FramePending ==
  \E k \in DOMAIN frames :
    /\ rendered = CurrentRender \/ staleFrames < MaxStaleFrames
    /\ \/ AnimateUpdates(frames[k]) /\ TickRuns(simulation)
       \/ lastEvent # "frame"
       \/ rendered # CurrentRender

\* WF_vars(animate) with its ENABLED replaced by FramePending: the browser
\* runs a requested animation frame that stays pending
FrameFairness == []<>(~FramePending) \/ []<><<animate>>_vars

\* The browser keeps firing the requested animation frame and React keeps
\* committing the renders that setState calls have queued: a frame or a
\* render that stays pending is eventually run.
SpecFrames == Init /\ [][Next]_vars /\ WF_vars(Mount) /\ WF_vars(Commit) /\ FrameFairness

\* the closure of the frame that fires in a step; one frame is pending
FiringClosure == frames[1]

\* C11: a tick does its steps in this order: the target speed is computed
\* (cruise control on) from the front reading the previous tick or the
\* initialisation left; the speed moves a tenth of the way to the target;
\* position and accumulated distance advance by speed * delta * 20 along the
\* heading the tick started with; lane keeping (if on) steers from the new
\* position with the new speed; the sensor readings are those measured at
\* the new position and heading; and the running flag is cleared on the
\* new accumulated distance.
C11_TickOrder ==
  [][(TickStep /\ Len(frames) = 1) =>
       \E delta \in Deltas :
         LET target == IF FiringClosure.cruise
                         THEN RegulatedSpeed(simulation.sensorReadings.front)
                         ELSE simulation.targetSpeed
             newSpeed == simulation.carSpeed + Trunc(target - simulation.carSpeed, 10)
             step == Trunc(newSpeed * delta, 5)
             newPosition ==
               [x |-> simulation.carPosition.x + Trunc(Sin(simulation.carRotation) * step, 1000),
                z |-> simulation.carPosition.z + Trunc(Cos(simulation.carRotation) * step, 1000)]
             nearest == simulation.roadCurves[NearestSegmentIndex(newPosition, simulation.roadCurves)]
             newRotation == IF FiringClosure.lane
                              THEN simulation.carRotation + SteeringAdjustment(newPosition, nearest, newSpeed)
                              ELSE simulation.carRotation
         IN /\ simulation'.targetSpeed = target
            /\ simulation'.carSpeed = newSpeed
            /\ simulation'.distance = simulation.distance + step
            /\ simulation'.carPosition = newPosition
            /\ simulation'.carRotation = newRotation
            /\ simulation'.sensorReadings = updateSensors(simulation').sensorReadings
            /\ isSimulationRunning' =
                 (isSimulationRunning /\ simulation.distance + step <= roadLength)]_vars

\* a tick in which cruise control slowed the car for a reading of the tick
\* before, lane keeping steered, and the sensors see an obstacle ahead
C11_Witness ==
  /\ lastEvent = "tick"
  /\ rendered.lane /\ rendered.cruise
  /\ acInput.epoch = "current"
  /\ acInput.front < 100
  /\ simulation.carSpeed < baseSpeed
  /\ simulation.carRotation # 0
  /\ simulation.distance > 0

\* C12: the speed never falls below a tenth of baseSpeed, every tick
\* increases the accumulated distance, and a run that is Running with n
\* commands issued so far reaches Stopped unless the user issues another
\* command or toggle.
C12_RunReachesStopped ==
  /\ [](simulation.carSpeed >= baseSpeed \div 10)
  /\ [][TickStep => simulation'.distance > simulation.distance]_vars
  /\ \A n \in 0..MaxCommands :
       (isSimulationRunning /\ commands = n) ~> (~isSimulationRunning \/ commands # n)

\* a run under cruise control, slowed by an obstacle, that the end of the
\* road has stopped
C12_Witness ==
  /\ lastEvent = "tick"
  /\ rendered.running /\ rendered.cruise
  /\ ~isSimulationRunning
  /\ simulation.distance > roadLength
  /\ simulation.carSpeed < baseSpeed

\* the running flag has been cleared, by the stop command or at the end of
\* the road, and the render that follows has not been committed yet
Stopping == rendered.running /\ ~isSimulationRunning

\* C13 as claimed: from the moment the running flag is cleared (stop command
\* or end of the road) and as long as it stays cleared, position, heading,
\* speed, accumulated distance, the segment list and the obstacle set keep
\* their values, and no frame that fires while the flag is cleared runs a
\* tick.
C13_StopKeepsState ==
  [][/\ (Stopping /\ ~isSimulationRunning') =>
          /\ simulation'.carPosition = simulation.carPosition
          /\ simulation'.carRotation = simulation.carRotation
          /\ simulation'.carSpeed = simulation.carSpeed
          /\ simulation'.distance = simulation.distance
          /\ simulation'.roadCurves = simulation.roadCurves
          /\ simulation'.obstacles = simulation.obstacles
     /\ TickStep => isSimulationRunning]_vars

============================================================================
